---------------------------- MODULE Spec2Model ----------------------------
(* Model of the pull request check action: src/src/helper.ts (class Helper) *)
(* and src/src/main.ts (checkPullRequest, lines 71-291).                    *)
(*                                                                          *)
(* JavaScript strings are modelled as sequences of one-character strings,   *)
(* so that split, trim, startsWith, includes and the template `@${x}` are   *)
(* computed the way the code computes them.                                 *)
EXTENDS Integers, Sequences, FiniteSets, TLC

(***************************************************************************)
(* JavaScript string and array primitives used by Helper                   *)
(***************************************************************************)

\* String.prototype.includes(ch) for a one-character needle.
includesChar(s, ch) == \E i \in 1..Len(s) : s[i] = ch

\* String.prototype.startsWith(ch) for a one-character prefix.
startsWith(s, ch) == Len(s) > 0 /\ s[1] = ch

\* Array.prototype.includes / findIndex(...) !== -1.
includes(arr, x) == \E i \in 1..Len(arr) : arr[i] = x

\* The template literal `@${login}`.
At(login) == <<"@">> \o login

\* The array left in the order it was filled in, where the code reverses it.
reverseNot(arr) == arr

\* Array.prototype.reverse.
reverse(arr) == [i \in 1..Len(arr) |-> arr[Len(arr) + 1 - i]]

\* The characters matched by \s in the inputs of the model.
IsSpace(ch) == ch \in {" ", "\t"}

\* The characters matched by /\r\n|\r|\n/ are built from these two.
IsEol(ch) == ch \in {"\n", "\r"}

\* String.prototype.slice(1).
slice1(s) == SubSeq(s, 2, Len(s))

\* content.split(/\r\n|\r|\n/): the lines of a text, "\r\n" counting as one
\* line ending. i is the position scanned, cur the line collected so far.
RECURSIVE splitLinesFrom(_, _, _)
splitLinesFrom(s, i, cur) ==
    IF i > Len(s) THEN <<cur>>
    ELSE IF s[i] = "\r" /\ i < Len(s) /\ s[i + 1] = "\n"
         THEN <<cur>> \o splitLinesFrom(s, i + 2, <<>>)
    ELSE IF IsEol(s[i]) THEN <<cur>> \o splitLinesFrom(s, i + 1, <<>>)
    ELSE splitLinesFrom(s, i + 1, Append(cur, s[i]))

splitLines(content) == splitLinesFrom(content, 1, <<>>)

\* line.replace(/#.*/g, ''): everything from the first '#' on is removed.
RECURSIVE stripComment(_)
stripComment(line) ==
    IF Len(line) = 0 \/ line[1] = "#" THEN <<>>
    ELSE <<line[1]>> \o stripComment(Tail(line))

\* String.prototype.trim, one side at a time.
RECURSIVE trimStart(_)
trimStart(s) ==
    IF Len(s) > 0 /\ IsSpace(s[1]) THEN trimStart(Tail(s)) ELSE s

RECURSIVE trimEnd(_)
trimEnd(s) ==
    IF Len(s) > 0 /\ IsSpace(s[Len(s)])
    THEN trimEnd(SubSeq(s, 1, Len(s) - 1)) ELSE s

trim(s) == trimEnd(trimStart(s))

\* s.split(/\s+/): a run of whitespace separates two tokens; the empty
\* string splits into the one token "".
RECURSIVE splitWsFrom(_, _, _)
splitWsFrom(s, i, cur) ==
    IF i > Len(s) THEN <<cur>>
    ELSE IF IsSpace(s[i])
         THEN IF i > 1 /\ IsSpace(s[i - 1])
              THEN splitWsFrom(s, i + 1, cur)
              ELSE <<cur>> \o splitWsFrom(s, i + 1, <<>>)
    ELSE splitWsFrom(s, i + 1, Append(cur, s[i]))

splitWs(s) == splitWsFrom(s, 1, <<>>)

\* The split of a line with its comment left in.
tokensOfWholeLine(line) == splitWs(trim(line))

\* line.replace(/#.*/g, '').trim().split(/\s+/)
tokens(line) == splitWs(trim(stripComment(line)))

\* s.split('/') as the matcher uses it on patterns and paths.
RECURSIVE splitSlashFrom(_, _, _)
splitSlashFrom(s, i, cur) ==
    IF i > Len(s) THEN <<cur>>
    ELSE IF s[i] = "/" THEN <<cur>> \o splitSlashFrom(s, i + 1, <<>>)
    ELSE splitSlashFrom(s, i + 1, Append(cur, s[i]))

splitSlash(s) == splitSlashFrom(s, 1, <<>>)

(***************************************************************************)
(* The matcher ignore().add(pattern) bound to .ignores (helper.ts 245-246) *)
(* One rule per entry, gitignore semantics: '*' matches within a path      *)
(* segment, a pattern with a leading or inner '/' is anchored at the root, *)
(* a pattern without one matches at any depth, a trailing '/' matches      *)
(* directories only, a path below a matched directory is matched, and a    *)
(* '!' rule alone never matches. The inputs of the model use no '**', '?', *)
(* '[', backslash or upper-case letter.                                    *)
(***************************************************************************)

\* A segment glob p against a segment s, from positions i and j.
RECURSIVE globFrom(_, _, _, _)
globFrom(p, i, s, j) ==
    IF i > Len(p) THEN j > Len(s)
    ELSE IF p[i] = "*"
         THEN globFrom(p, i + 1, s, j) \/ (j <= Len(s) /\ globFrom(p, i, s, j + 1))
    ELSE j <= Len(s) /\ p[i] = s[j] /\ globFrom(p, i + 1, s, j + 1)

glob(p, s) == globFrom(p, 1, s, 1)

\* The rule made from a pattern: its segments, anchoring and kind.
ruleOf(pattern) ==
    LET neg      == startsWith(pattern, "!")
        body     == IF neg THEN slice1(pattern) ELSE pattern
        lead     == startsWith(body, "/")
        noLead   == IF lead THEN slice1(body) ELSE body
        dirOnly  == Len(noLead) > 0 /\ noLead[Len(noLead)] = "/"
        core     == IF dirOnly THEN SubSeq(noLead, 1, Len(noLead) - 1) ELSE noLead
        segs     == splitSlash(core)
    IN  [valid    |-> Len(trim(pattern)) > 0 /\ Len(core) > 0,
         negative |-> neg,
         dirOnly  |-> dirOnly,
         anchored |-> lead \/ Len(segs) > 1,
         segs     |-> segs]

\* Whether the rule matches the first k segments of the path fs, taken as a
\* directory when k < Len(fs) and as the file itself when k = Len(fs).
ruleMatchesPrefix(rule, fs, k) ==
    /\ rule.dirOnly => k < Len(fs)
    /\ IF rule.anchored
       THEN /\ Len(rule.segs) = k
            /\ \A n \in 1..k : glob(rule.segs[n], fs[n])
       ELSE glob(rule.segs[1], fs[k])

\* entry.match(relativePath): matcher.ignores of the one-rule matcher.
match(pattern, relativePath) ==
    LET rule == ruleOf(pattern)
        fs   == splitSlash(relativePath)
    IN  /\ rule.valid
        /\ ~rule.negative
        /\ \E k \in 1..Len(fs) : ruleMatchesPrefix(rule, fs, k)

\* relativePath = file.startsWith('/') ? file.slice(1) : file
relativePath(file) == IF startsWith(file, "/") THEN slice1(file) ELSE file

(***************************************************************************)
(* Helper.getCodeOwners / Helper.getCodeTeams: the parse of a found file   *)
(***************************************************************************)

\* parseCodeOwnersFrom with a later line of the same first token taking the
\* place of the entry of the earlier one.
RECURSIVE parseCodeOwnersFromLastWins(_, _, _)
parseCodeOwnersFromLastWins(lines, i, acc) ==
    IF i > Len(lines) THEN acc
    ELSE LET line == lines[i]
         IN  IF Len(line) = 0 \/ startsWith(line, "#")
             THEN parseCodeOwnersFromLastWins(lines, i + 1, acc)
             ELSE LET toks == tokens(line)
                      path == Head(toks)
                  IN  IF \E n \in 1..Len(acc) : acc[n].path = path
                      THEN parseCodeOwnersFromLastWins(lines, i + 1,
                              [n \in 1..Len(acc) |->
                                  IF acc[n].path = path
                                  THEN [path |-> path, owners |-> Tail(toks)]
                                  ELSE acc[n]])
                      ELSE parseCodeOwnersFromLastWins(lines, i + 1,
                              Append(acc, [path |-> path, owners |-> Tail(toks)]))

\* The line loop of getCodeOwners (helper.ts 240-250): acc is
\* codeOwnerEntries so far.
RECURSIVE parseCodeOwnersFrom(_, _, _)
parseCodeOwnersFrom(lines, i, acc) ==
    IF i > Len(lines) THEN acc
    ELSE LET line == lines[i]
         IN  IF Len(line) = 0 \/ startsWith(line, "#")
             THEN parseCodeOwnersFrom(lines, i + 1, acc)
             ELSE LET toks == tokens(line)
                      path == Head(toks)
                  IN  IF \E n \in 1..Len(acc) : acc[n].path = path
                      THEN parseCodeOwnersFrom(lines, i + 1, acc)
                      ELSE parseCodeOwnersFrom(lines, i + 1,
                              Append(acc, [path |-> path, owners |-> Tail(toks)]))

\* helper.ts 239-251: split, parse, reverse.
parseCodeOwners(content) ==
    reverse(parseCodeOwnersFrom(splitLines(content), 1, <<>>))

\* The line loop of getCodeTeams (helper.ts 275-283).
RECURSIVE parseCodeTeamsFrom(_, _, _)
parseCodeTeamsFrom(lines, i, acc) ==
    IF i > Len(lines) THEN acc
    ELSE LET line == lines[i]
         IN  IF Len(line) = 0 \/ startsWith(line, "#")
             THEN parseCodeTeamsFrom(lines, i + 1, acc)
             ELSE LET toks  == tokens(line)
                      label == Head(toks)
                  IN  IF \E n \in 1..Len(acc) : acc[n].label = label
                      THEN parseCodeTeamsFrom(lines, i + 1, acc)
                      ELSE parseCodeTeamsFrom(lines, i + 1,
                              Append(acc, [label |-> label, users |-> Tail(toks)]))

\* helper.ts 274-284: split, parse, reverse.
parseCodeTeams(content) ==
    reverse(parseCodeTeamsFrom(splitLines(content), 1, <<>>))

(***************************************************************************)
(* Helper.getPullCodeOwners (helper.ts 290-316)                            *)
(***************************************************************************)

\* collectEntryOwners with the two tests of helper.ts 300-302 in the other
\* order: a token starting with '@' is taken before '/' is looked for.
RECURSIVE collectEntryOwnersAtFirst(_, _, _)
collectEntryOwnersAtFirst(entryOwners, n, acc) ==
    IF n > Len(entryOwners) THEN acc
    ELSE LET owner == entryOwners[n]
         IN  IF startsWith(owner, "@")
             THEN IF includes(acc.owners, owner)
                  THEN collectEntryOwnersAtFirst(entryOwners, n + 1, acc)
                  ELSE collectEntryOwnersAtFirst(entryOwners, n + 1,
                          [acc EXCEPT !.owners = Append(@, owner)])
             ELSE IF includesChar(owner, "/")
                  THEN collectEntryOwnersAtFirst(entryOwners, n + 1,
                          [acc EXCEPT !.notices = Append(@, "team")])
             ELSE collectEntryOwnersAtFirst(entryOwners, n + 1,
                     [acc EXCEPT !.notices = Append(@, "noAt")])

\* The owner loop of one matching entry (helper.ts 299-311): acc holds the
\* owners collected so far and the notices written.
RECURSIVE collectEntryOwners(_, _, _)
collectEntryOwners(entryOwners, n, acc) ==
    IF n > Len(entryOwners) THEN acc
    ELSE LET owner == entryOwners[n]
         IN  IF includesChar(owner, "/")
             THEN collectEntryOwners(entryOwners, n + 1,
                     [acc EXCEPT !.notices = Append(@, "team")])
             ELSE IF startsWith(owner, "@")
                  THEN IF includes(acc.owners, owner)
                       THEN collectEntryOwners(entryOwners, n + 1, acc)
                       ELSE collectEntryOwners(entryOwners, n + 1,
                               [acc EXCEPT !.owners = Append(@, owner)])
             ELSE collectEntryOwners(entryOwners, n + 1,
                     [acc EXCEPT !.notices = Append(@, "noAt")])

\* collectFileOwners leaving the entry loop at the first matching entry.
RECURSIVE collectFileOwnersFirstMatch(_, _, _, _)
collectFileOwnersFirstMatch(rel, entries, j, acc) ==
    IF j > Len(entries) THEN acc
    ELSE IF match(entries[j].path, rel)
         THEN collectEntryOwners(entries[j].owners, 1, acc)
    ELSE collectFileOwnersFirstMatch(rel, entries, j + 1, acc)

\* The entry loop for one file (helper.ts 297-313).
RECURSIVE collectFileOwners(_, _, _, _)
collectFileOwners(rel, entries, j, acc) ==
    IF j > Len(entries) THEN acc
    ELSE IF match(entries[j].path, rel)
         THEN collectFileOwners(rel, entries, j + 1,
                 collectEntryOwners(entries[j].owners, 1, acc))
    ELSE collectFileOwners(rel, entries, j + 1, acc)

\* The file loop (helper.ts 295-314).
RECURSIVE collectOwnersFrom(_, _, _, _)
collectOwnersFrom(fileList, i, entries, acc) ==
    IF i > Len(fileList) THEN acc
    ELSE collectOwnersFrom(fileList, i + 1, entries,
            collectFileOwners(relativePath(fileList[i]), entries, 1, acc))

\* The call: .owners is the returned list, .notices the notices written.
getPullCodeOwners(fileList, entries) ==
    collectOwnersFrom(fileList, 1, entries, [owners |-> <<>>, notices |-> <<>>])

(***************************************************************************)
(* Helper.isActorOwner (helper.ts 318-353)                                 *)
(***************************************************************************)

\* scanEntries without the test of helper.ts 332 on the owner loop: an entry
\* that lists the actor counts whether or not it matches the file.
RECURSIVE scanEntriesAnyPath(_, _, _, _, _)
scanEntriesAnyPath(actorName, rel, entries, j, isOwner) ==
    IF j > Len(entries) THEN IF isOwner THEN "owned" ELSE "notOwned"
    ELSE IF match(entries[j].path, rel) /\ Len(entries[j].owners) = 0 THEN "unowned"
    ELSE scanEntriesAnyPath(actorName, rel, entries, j + 1,
            isOwner \/ includes(entries[j].owners, At(actorName)))

\* The entry loop for one file (helper.ts 331-344): "unowned" is the return
\* at line 335, otherwise the value of isOwner after the loop.
RECURSIVE scanEntries(_, _, _, _, _)
scanEntries(actorName, rel, entries, j, isOwner) ==
    IF j > Len(entries) THEN IF isOwner THEN "owned" ELSE "notOwned"
    ELSE IF match(entries[j].path, rel)
         THEN IF Len(entries[j].owners) = 0 THEN "unowned"
              ELSE scanEntries(actorName, rel, entries, j + 1,
                      isOwner \/ includes(entries[j].owners, At(actorName)))
    ELSE scanEntries(actorName, rel, entries, j + 1, isOwner)

\* The file loop (helper.ts 328-352).
RECURSIVE ownsFrom(_, _, _, _)
ownsFrom(actorName, fileList, i, entries) ==
    IF i > Len(fileList) THEN [result |-> TRUE, info |-> "ownsAll", file |-> 0]
    ELSE LET verdict == scanEntries(actorName, relativePath(fileList[i]), entries, 1, FALSE)
         IN  IF verdict = "owned"
             THEN ownsFrom(actorName, fileList, i + 1, entries)
             ELSE [result |-> FALSE, info |-> verdict, file |-> i]

\* isActorOwner without the early return of helper.ts 323-326.
isActorOwnerNoEarlyReturn(actorName, fileList, entries) ==
    ownsFrom(actorName, fileList, 1, entries)

\* The call: .result is the returned boolean, .info the last message
\* written and .file the index of the file it is about.
isActorOwner(actorName, fileList, entries) ==
    IF ~\E n \in 1..Len(entries) : includes(entries[n].owners, At(actorName))
    THEN [result |-> FALSE, info |-> "notCodeOwner", file |-> 0]
    ELSE ownsFrom(actorName, fileList, 1, entries)

(***************************************************************************)
(* Helper.isReviewed (helper.ts 355-381)                                   *)
(***************************************************************************)

\* `@${review.user?.login}`: a review without user gives "@undefined".
reviewerTag(review) ==
    IF review.hasUser THEN At(review.login)
    ELSE <<"@", "u", "n", "d", "e", "f", "i", "n", "e", "d">>

\* prUser !== reviewer
notPrUser(review, prUserName) == ~review.hasUser \/ review.login # prUserName

\* The condition without the sole-owner disjunct of helper.ts 369.
qualifiesNoSoleOwner(review, ownerList, prUserName) ==
    /\ review.state = "APPROVED"
    /\ \/ Len(ownerList) = 0
       \/ includes(ownerList, reviewerTag(review)) /\ notPrUser(review, prUserName)

\* The condition of helper.ts 366-371.
qualifies(review, ownerList, prUserName) ==
    /\ review.state = "APPROVED"
    /\ \/ Len(ownerList) = 0
       \/ Len(ownerList) = 1 /\ includes(ownerList, reviewerTag(review))
       \/ includes(ownerList, reviewerTag(review)) /\ notPrUser(review, prUserName)

\* The review loop looking at the last review of the list only.
lastReviewDecides(reviewList, n, ownerList, prUserName) ==
    IF qualifies(reviewList[Len(reviewList)], ownerList, prUserName)
    THEN Len(reviewList) ELSE 0

\* The review loop (helper.ts 364-375): the index of the review it returns
\* true at, 0 when it runs to the end.
RECURSIVE firstApproval(_, _, _, _)
firstApproval(reviewList, n, ownerList, prUserName) ==
    IF n > Len(reviewList) THEN 0
    ELSE IF qualifies(reviewList[n], ownerList, prUserName) THEN n
    ELSE firstApproval(reviewList, n + 1, ownerList, prUserName)

\* isReviewed returning false when no owner is required.
isReviewedNoOwnersFails(response, ownerList, prUserName) ==
    IF ~response.isNull /\ Len(response.data) > 0 /\ Len(ownerList) > 0
    THEN LET n == firstApproval(response.data, 1, ownerList, prUserName)
         IN  [result |-> n > 0, at |-> n]
    ELSE [result |-> FALSE, at |-> 0]

\* The call on the response of getPullReviews: .result is the returned
\* boolean, .at the index of the approving review.
isReviewed(response, ownerList, prUserName) ==
    IF ~response.isNull /\ Len(response.data) > 0
    THEN LET n == firstApproval(response.data, 1, ownerList, prUserName)
         IN  [result |-> n > 0, at |-> n]
    ELSE [result |-> FALSE, at |-> 0]

(***************************************************************************)
(* State                                                                   *)
(***************************************************************************)

VARIABLES
    cfg,               \* the inputs of checkPullRequest (main.ts 71-91)
    actor,             \* context.actor
    pc,                \* the position of the run in checkPullRequest
    pr,                \* the response of getPull
    codeOwnerEntries,  \* main.ts 105
    files,             \* main.ts 106
    isOwner,           \* the result of isActorOwner (main.ts 132)
    owners,            \* the result of getPullCodeOwners (main.ts 152)
    reviews,           \* the response of the last getPullReviews
    hasReview,         \* the result of the last isReviewed
    codeTeamEntries,   \* main.ts 186
    labels,            \* the response of getLabelsOnIssue (main.ts 204)
    entryIdx,          \* the position of the loop of main.ts 211
    pullUser,          \* main.ts 210
    error,             \* the Error thrown out of checkPullRequest, if any
    calls,             \* the requests sent to the hosting API, in order
    content,           \* the text of the last declaration file read (helper.ts 235)
    baseRef,           \* what the candidate paths of the last lookup resolve to
                       \* at pr.base.ref: the responses of repos.getContent
    log                \* the 'Check ...' / 'Passed ...' lines written, in order

vars == <<cfg, actor, pc, pr, codeOwnerEntries, files, isOwner, owners, reviews,
          hasReview, codeTeamEntries, labels, entryIdx, pullUser, error, calls,
          content, baseRef, log>>

(***************************************************************************)
(* Bounds and input sets                                                   *)
(***************************************************************************)

MaxOwners == 2    \* owner tokens on one CODEOWNERS line
MaxEntries == 2   \* entries handed to the ownership functions
MaxFiles == 2     \* changed files of a pull request
MaxReviews == 2   \* reviews of a pull request

\* All sequences over S of length at most n.
SeqsUpTo(S, n) == UNION {[1..k -> S] : k \in 0..n}

alice == <<"a">>
bob == <<"b">>
carol == <<"c">>
Logins == {alice, bob, carol}

\* Owner tokens: two users, a team reference and a name without '@'.
TeamToken == <<"@", "o", "/", "t">>
BareToken == <<"b">>
OwnerTokens == {At(alice), At(bob), TeamToken, BareToken}

\* Patterns: everything, the directory d at the root, and its negation.
PatAll == <<"*">>
PatDir == <<"/", "d", "/">>
PatNotDir == <<"!", "/", "d", "/">>
Patterns == {PatAll, PatDir, PatNotDir}

\* File names as pulls.listFiles reports them (no leading '/').
NameInDir == <<"d", "/", "x">>
NameAtRoot == <<"y">>
FileNames == {NameInDir, NameAtRoot}

ReviewStates == {"APPROVED", "CHANGES_REQUESTED", "DISMISSED"}
NoUserReview(st) == [hasUser |-> FALSE, login |-> <<>>, state |-> st]
UserReview(u, st) == [hasUser |-> TRUE, login |-> u, state |-> st]
Reviews == {UserReview(u, st) : u \in Logins, st \in ReviewStates}
               \cup {NoUserReview("APPROVED")}

\* A response whose data is null, and one carrying data.
Null == [isNull |-> TRUE, data |-> <<>>]
Data(d) == [isNull |-> FALSE, data |-> d]

\* The Error thrown: which throw statement, and the label, users and state
\* its message names.
NoError == [msg |-> "", label |-> <<>>, users |-> <<>>, detail |-> ""]
Thrown(m) == [NoError EXCEPT !.msg = m]

\* The values the variables of a run hold before the run sets them.
NoCfg == [requireCodeOwnersFile |-> FALSE, requireActorIsCodeOwner |-> FALSE,
          requireCodeOwnerReview |-> FALSE, requireCodeTeamsFile |-> FALSE,
          requireCodeTeamReview |-> FALSE, requireApprovedReview |-> FALSE,
          requiredMergeableState |-> [defined |-> FALSE, states |-> <<>>]]
NoPull == [isNull |-> TRUE, hasUser |-> FALSE, login |-> <<>>, merged |-> FALSE,
           mergeable |-> "null", mergeable_state |-> "unknown"]
NoVerdict == [result |-> FALSE, info |-> "", file |-> 0]
NoOwners == [owners |-> <<>>, notices |-> <<>>]
NoReview == [result |-> FALSE, at |-> 0]

(***************************************************************************)
(* SpecOwner: the ownership functions on all bounded arguments             *)
(***************************************************************************)

OwnerLists == SeqsUpTo(OwnerTokens, MaxOwners)

\* Sequences of distinct patterns: getCodeOwners keeps one entry per path.
PatternSeqs ==
    {ps \in SeqsUpTo(Patterns, MaxEntries) :
        \A i, j \in 1..Len(ps) : i # j => ps[i] # ps[j]}

EntrySeqs ==
    UNION {{[i \in 1..Len(ps) |-> [path |-> ps[i], owners |-> os[i]]] :
                os \in [1..Len(ps) -> OwnerLists]} : ps \in PatternSeqs}

\* getPullFiles (helper.ts 188): every file name gets a leading '/'.
FileLists == {[i \in 1..Len(ns) |-> <<"/">> \o ns[i]] : ns \in SeqsUpTo(FileNames, MaxFiles)}

OwnerInit ==
    /\ cfg = NoCfg
    /\ actor \in {alice, bob}
    /\ pc = "isActorOwner"
    /\ pr = NoPull
    /\ codeOwnerEntries \in EntrySeqs
    /\ files \in FileLists
    /\ isOwner = NoVerdict
    /\ owners = NoOwners
    /\ reviews = Null
    /\ hasReview = NoReview
    /\ codeTeamEntries = <<>>
    /\ labels = Null
    /\ entryIdx = 0
    /\ pullUser = <<>>
    /\ error = NoError
    /\ calls = <<>>
    /\ content = <<>>
    /\ baseRef = <<>>
    /\ log = <<>>

IsActorOwnerCall ==
    /\ pc = "isActorOwner"
    /\ isOwner' = isActorOwner(actor, files, codeOwnerEntries)
    /\ pc' = "getPullCodeOwners"
    /\ UNCHANGED <<baseRef, content, cfg, actor, pr, codeOwnerEntries, files, owners, reviews,
                   hasReview, codeTeamEntries, labels, entryIdx, pullUser,
                   error, calls, log>>

GetPullCodeOwnersCall ==
    /\ pc = "getPullCodeOwners"
    /\ owners' = getPullCodeOwners(files, codeOwnerEntries)
    /\ pc' = "ownerReturned"
    /\ UNCHANGED <<baseRef, content, cfg, actor, pr, codeOwnerEntries, files, isOwner, reviews,
                   hasReview, codeTeamEntries, labels, entryIdx, pullUser,
                   error, calls, log>>

OwnerNext == IsActorOwnerCall \/ GetPullCodeOwnersCall

SpecOwner == OwnerInit /\ [][OwnerNext]_vars

(***************************************************************************)
(* Claims about the ownership functions, checked under SpecOwner           *)
(***************************************************************************)

\* isActorOwner has returned.
OwnerCalled == pc \in {"getPullCodeOwners", "ownerReturned"}

\* Some entry lists '@'+actor.
ActorListed ==
    \E n \in 1..Len(codeOwnerEntries) : includes(codeOwnerEntries[n].owners, At(actor))

\* The indexes of the entries that match a file, and the first of them in
\* precedence order (0 when none matches).
MatchingEntries(file) ==
    {j \in 1..Len(codeOwnerEntries) : match(codeOwnerEntries[j].path, relativePath(file))}

FirstMatching(file) ==
    IF MatchingEntries(file) = {} THEN 0
    ELSE CHOOSE j \in MatchingEntries(file) : \A k \in MatchingEntries(file) : j <= k

ValidOwner(o) == startsWith(o, "@") /\ ~includesChar(o, "/")

\* C4 as stated: with an empty list of changed files isActorOwner returns
\* true for every actor and every entry sequence.
C4_EmptyFilesAlwaysTrue ==
    (OwnerCalled /\ files = <<>>) => isOwner.result

\* C4 amended: with an empty list of changed files isActorOwner returns true
\* exactly when some entry lists '@'+actor; it returns false when no entry
\* lists the actor, the empty entry sequence included.
C4_EmptyFilesTrueIffListed ==
    (OwnerCalled /\ files = <<>>) => (isOwner.result <=> ActorListed)

C4_Witness ==
    /\ OwnerCalled /\ files = <<>>
    /\ Len(codeOwnerEntries) > 0 /\ ~ActorListed
    /\ ~isOwner.result /\ isOwner.info = "notCodeOwner"

\* C5: isActorOwner returns true only if some entry lists '@'+actor and
\* every changed file has a matching entry (any of them, not only the first
\* in precedence order) that lists '@'+actor.
C5_TrueOnlyIfActorOnEveryFile ==
    (OwnerCalled /\ isOwner.result) =>
        /\ ActorListed
        /\ \A i \in 1..Len(files) :
              \E j \in MatchingEntries(files[i]) :
                  includes(codeOwnerEntries[j].owners, At(actor))

C5_Witness ==
    /\ OwnerCalled /\ isOwner.result /\ Len(files) = 2
    /\ \E i \in 1..Len(files) :
          /\ Cardinality(MatchingEntries(files[i])) = 2
          /\ ~includes(codeOwnerEntries[FirstMatching(files[i])].owners, At(actor))

\* C6 as stated: the file isActorOwner stops at is rejected as unowned
\* exactly when the first entry matching it in precedence order lists zero
\* owners.
C6_UnownedOnlyByFirstMatch ==
    (OwnerCalled /\ isOwner.file > 0) =>
        (isOwner.info = "unowned" <=>
            /\ FirstMatching(files[isOwner.file]) > 0
            /\ Len(codeOwnerEntries[FirstMatching(files[isOwner.file])].owners) = 0)

\* C7 as stated: isActorOwner accepts the actor only when, for every changed
\* file, the first matching entry in precedence order (the last declared
\* matching pattern) lists '@'+actor.
C7_LastMatchWins ==
    (OwnerCalled /\ isOwner.result) =>
        \A i \in 1..Len(files) :
            /\ FirstMatching(files[i]) > 0
            /\ includes(codeOwnerEntries[FirstMatching(files[i])].owners, At(actor))

\* The owner tokens getPullCodeOwners meets, as <<file, entry, token>>
\* indexes, that satisfy Test.
TokensMet(Test(_)) ==
    {t \in (1..Len(files)) \X (1..Len(codeOwnerEntries)) \X (1..MaxOwners + 1) :
        /\ t[2] \in MatchingEntries(files[t[1]])
        /\ t[3] <= Len(codeOwnerEntries[t[2]].owners)
        /\ Test(codeOwnerEntries[t[2]].owners[t[3]])}

InvalidOwner(o) == ~ValidOwner(o)

\* C8: the list getPullCodeOwners returns holds no token with a '/' and no
\* token without a leading '@'; each such token met costs one notice and
\* nothing else: every valid owner of every matching entry is returned.
C8_OnlyValidOwnersCollected ==
    pc = "ownerReturned" =>
        /\ \A n \in 1..Len(owners.owners) : ValidOwner(owners.owners[n])
        /\ \A t \in TokensMet(ValidOwner) :
              includes(owners.owners, codeOwnerEntries[t[2]].owners[t[3]])
        /\ Len(owners.notices) = Cardinality(TokensMet(InvalidOwner))

C8_Witness ==
    /\ pc = "ownerReturned"
    /\ \E i \in 1..Len(files) : \E j \in MatchingEntries(files[i]) :
          /\ codeOwnerEntries[j].owners = <<TeamToken, At(alice)>>
          /\ owners.owners = <<At(alice)>>
          /\ Len(owners.notices) >= 1

(***************************************************************************)
(* SpecReviewed: isReviewed on all bounded arguments                       *)
(***************************************************************************)

\* main.ts 218: the value passed as prUser for a rule with one user.
SkipPrUserTest ==
    <<"s", "k", "i", "p", "P", "r", "U", "s", "e", "r", "T", "e", "s", "t">>

\* The responses of pulls.listReviews: null, or a list of reviews.
ReviewResponses == {Null} \cup {Data(rs) : rs \in SeqsUpTo(Reviews, MaxReviews)}

ReviewedInit ==
    /\ cfg = NoCfg
    /\ actor = alice
    /\ pc = "isReviewed"
    /\ pr = NoPull
    /\ codeOwnerEntries = <<>>
    /\ files = <<>>
    /\ isOwner = NoVerdict
    /\ \E os \in SeqsUpTo({At(alice), At(bob)}, MaxOwners) :
          owners = [owners |-> os, notices |-> <<>>]
    /\ reviews \in ReviewResponses
    /\ hasReview = NoReview
    /\ codeTeamEntries = <<>>
    /\ labels = Null
    /\ entryIdx = 0
    /\ pullUser \in Logins \cup {SkipPrUserTest}
    /\ error = NoError
    /\ calls = <<>>
    /\ content = <<>>
    /\ baseRef = <<>>
    /\ log = <<>>

IsReviewedCall ==
    /\ pc = "isReviewed"
    /\ calls' = Append(calls, "pulls.listReviews")
    /\ hasReview' = isReviewed(reviews, owners.owners, pullUser)
    /\ pc' = "reviewedReturned"
    /\ UNCHANGED <<baseRef, content, cfg, actor, pr, codeOwnerEntries, files, isOwner, owners,
                   reviews, codeTeamEntries, labels, entryIdx, pullUser,
                   error, log>>

ReviewedNext == IsReviewedCall

SpecReviewed == ReviewedInit /\ [][ReviewedNext]_vars

\* The review at position n of the response is an approval that counts for
\* the required owners os and the author: cases (a), (b), (c) of the claim.
CountsFor(n, os, author) ==
    LET review == reviews.data[n]
    IN  /\ review.state = "APPROVED"
        /\ \/ os = <<>>
           \/ Len(os) = 1 /\ os[1] = reviewerTag(review)
           \/ /\ \E k \in 1..Len(os) : os[k] = reviewerTag(review)
              /\ ~(review.hasUser /\ review.login = author)

\* C1: isReviewed returns true if and only if the review list holds an
\* APPROVED review for which (a) no owner is required, or (b) the one
\* required owner is '@'+reviewer, or (c) '@'+reviewer is a required owner
\* and the reviewer is not the author; so it is false for a missing or
\* empty list.
C1_ReviewedIffQualifyingApproval ==
    pc = "reviewedReturned" =>
        /\ hasReview.result <=>
              /\ ~reviews.isNull
              /\ \E n \in 1..Len(reviews.data) : CountsFor(n, owners.owners, pullUser)
        /\ (reviews.isNull \/ reviews.data = <<>>) => ~hasReview.result

\* The sole required owner approves their own pull request.
C1_Witness ==
    /\ pc = "reviewedReturned"
    /\ owners.owners = <<At(alice)>> /\ pullUser = alice
    /\ reviews = Data(<<UserReview(alice, "APPROVED")>>)
    /\ hasReview.result

(***************************************************************************)
(* Spec: one run of checkPullRequest (main.ts 71-291)                      *)
(* Each action is the code between two requests to the hosting API; the    *)
(* response of a request is drawn when the request is made.                *)
(***************************************************************************)

\* Text of the declaration files of the runs.
OwnersTwoLines == <<"*", " ", "@", "a", "\n", "/", "d", "/", " ", "@", "b", "\n">>
OwnersSole == <<"*", " ", "@", "a", "\n">>
OwnersPair == <<"*", " ", "@", "a", " ", "@", "b", "\n">>
OwnersTeamOnly == <<"*", " ", "@", "o", "/", "t", "\n">>
OwnersTexts == {OwnersTwoLines, OwnersSole, OwnersPair, OwnersTeamOnly}

LabelS == <<"s">>
LabelT == <<"t">>
TeamsPair == <<"s", " ", "@", "a", " ", "@", "b", "\n">>
TeamsSole == <<"s", " ", "@", "a", "\n">>
TeamsNoUser == <<"s", "\n">>
TeamsTwoLines == <<"s", " ", "@", "a", " ", "@", "b", "\n", "t", " ", "@", "b", "\n">>
\* A label written in double quotes with a space in it (README.md 141-154).
LabelQuoted == <<"n", " ", "s">>
TeamsQuoted == <<"\"", "n", " ", "s", "\"", " ", "@", "a", " ", "@", "b", "\n">>
\* A label followed only by a comment.
TeamsLabelComment == <<"s", " ", "#", "c", "\n">>
TeamsTexts ==
    {TeamsPair, TeamsSole, TeamsNoUser, TeamsTwoLines, TeamsQuoted, TeamsLabelComment}

\* A response of repos.getContent (helper.ts 138-159).
NotFound == [kind |-> "notFound", text |-> <<>>]
Failure == [kind |-> "error", text |-> <<>>]
Content(t) == [kind |-> "content", text |-> t]

\* helper.ts 228-233 and 263-268.
OwnersCandidates ==
    <<"CODEOWNERS", ".github/CODEOWNERS", ".gitlab/CODEOWNERS", "docs/CODEOWNERS">>
TeamsCandidates ==
    <<"CODETEAMS", ".github/CODETEAMS", ".gitlab/CODETEAMS", "docs/CODETEAMS">>

\* lookupFrom with an error raised when the last candidate is missing too,
\* in place of the return of helper.ts 254.
RECURSIVE lookupFromNoneThrows(_, _)
lookupFromNoneThrows(repo, i) ==
    IF i > Len(repo) THEN [found |-> FALSE, threw |-> TRUE, text |-> <<>>, probes |-> Len(repo)]
    ELSE IF repo[i].kind = "error"
         THEN [found |-> FALSE, threw |-> TRUE, text |-> <<>>, probes |-> i]
    ELSE IF repo[i].kind = "content" /\ Len(repo[i].text) > 0
         THEN [found |-> TRUE, threw |-> FALSE, text |-> repo[i].text, probes |-> i]
    ELSE lookupFromNoneThrows(repo, i + 1)

\* The candidate loop (helper.ts 236-253, 271-286) over the responses repo
\* of the candidates: which candidate it stops at and how.
RECURSIVE lookupFrom(_, _)
lookupFrom(repo, i) ==
    IF i > Len(repo) THEN [found |-> FALSE, threw |-> FALSE, text |-> <<>>, probes |-> Len(repo)]
    ELSE IF repo[i].kind = "error"
         THEN [found |-> FALSE, threw |-> TRUE, text |-> <<>>, probes |-> i]
    ELSE IF repo[i].kind = "content" /\ Len(repo[i].text) > 0
         THEN [found |-> TRUE, threw |-> FALSE, text |-> repo[i].text, probes |-> i]
    ELSE lookupFrom(repo, i + 1)

\* getCodeOwners going on to the remaining candidates after one has given
\* the content it parses.
getCodeOwnersProbesAll(repo) ==
    LET got == lookupFrom(repo, 1)
    IN  [entries |-> IF got.found THEN parseCodeOwners(got.text) ELSE <<>>,
         threw |-> got.threw,
         probes |-> IF got.found THEN Len(repo) ELSE got.probes,
         text |-> got.text]

\* Helper.getCodeOwners on a repository state.
getCodeOwners(repo) ==
    LET got == lookupFrom(repo, 1)
    IN  [entries |-> IF got.found THEN parseCodeOwners(got.text) ELSE <<>>,
         threw |-> got.threw, probes |-> got.probes, text |-> got.text]

\* getCodeTeams taking a failing request for a missing file.
getCodeTeamsSkipsErrors(repo) ==
    LET got == lookupFrom([i \in 1..Len(repo) |->
                              IF repo[i].kind = "error" THEN NotFound ELSE repo[i]], 1)
    IN  [entries |-> IF got.found THEN parseCodeTeams(got.text) ELSE <<>>,
         threw |-> got.threw, probes |-> got.probes, text |-> got.text]

\* Helper.getCodeTeams on a repository state.
getCodeTeams(repo) ==
    LET got == lookupFrom(repo, 1)
    IN  [entries |-> IF got.found THEN parseCodeTeams(got.text) ELSE <<>>,
         threw |-> got.threw, probes |-> got.probes, text |-> got.text]

\* The requests of a lookup that probed n candidates.
Probes(candidates, n) == SubSeq(candidates, 1, n)

\* Repository states of the runs: no file, a file at the root, or a request
\* that fails, for the first or the second candidate, with a file at the
\* candidate after it.
AllMissing == <<NotFound, NotFound, NotFound, NotFound>>
AtRoot(t) == <<Content(t), NotFound, NotFound, NotFound>>
FailsAtRoot(t) == <<Failure, Content(t), NotFound, NotFound>>
FailsBeforeFile(t) == <<NotFound, Failure, Content(t), NotFound>>
OwnersRepos == {AllMissing, FailsAtRoot(OwnersSole), FailsBeforeFile(OwnersSole)}
                   \cup {AtRoot(t) : t \in OwnersTexts}
TeamsRepos == {AllMissing, FailsAtRoot(TeamsSole), FailsBeforeFile(TeamsSole)}
                  \cup {AtRoot(t) : t \in TeamsTexts}

\* Responses of pulls.get: null, a pull request without user, or one opened
\* by alice or carol.
Pull(u, mg, ma, st) ==
    [isNull |-> FALSE, hasUser |-> TRUE, login |-> u, merged |-> mg,
     mergeable |-> ma, mergeable_state |-> st]
PullResponses ==
    {NoPull, [NoPull EXCEPT !.isNull = FALSE]}
        \cup {Pull(u, FALSE, "true", st) : u \in {alice, carol}, st \in {"clean", "dirty"}}

\* Responses of pulls.listFiles, pulls.listReviews and
\* issues.listLabelsOnIssue in the runs.
RunFileNames == {<<>>, <<NameInDir>>, <<NameAtRoot>>, <<NameInDir, NameAtRoot>>}
RunReviews ==
    {Null, Data(<<>>)}
        \cup {Data(<<UserReview(u, "APPROVED")>>) : u \in Logins}
        \cup {Data(<<UserReview(alice, "CHANGES_REQUESTED")>>)}
RunLabels ==
    {Null, Data(<<>>), Data(<<LabelS>>), Data(<<LabelT>>), Data(<<LabelS, LabelT>>),
     Data(<<LabelQuoted>>)}

Configs ==
    [requireCodeOwnersFile : BOOLEAN, requireActorIsCodeOwner : BOOLEAN,
     requireCodeOwnerReview : BOOLEAN, requireCodeTeamsFile : BOOLEAN,
     requireCodeTeamReview : BOOLEAN, requireApprovedReview : BOOLEAN,
     requiredMergeableState : {[defined |-> FALSE, states |-> <<>>],
                               [defined |-> TRUE, states |-> <<"clean">>]}]

Init ==
    /\ cfg \in Configs
    /\ actor \in {alice, bob}
    /\ pc = "getPull"
    /\ pr = NoPull
    /\ codeOwnerEntries = <<>>
    /\ files = <<>>
    /\ isOwner = NoVerdict
    /\ owners = NoOwners
    /\ reviews = Null
    /\ hasReview = NoReview
    /\ codeTeamEntries = <<>>
    /\ labels = Null
    /\ entryIdx = 0
    /\ pullUser = <<>>
    /\ error = NoError
    /\ calls = <<>>
    /\ content = <<>>
    /\ baseRef = <<>>
    /\ log = <<>>

\* Where the run goes after the block of main.ts 240-286 is decided.
mergePc ==
    IF cfg.requiredMergeableState.defined /\ Len(cfg.requiredMergeableState.states) > 0
    THEN "mergeableState" ELSE "allChecks"

\* main.ts 182
teamsPc ==
    IF cfg.requireCodeTeamsFile \/ cfg.requireCodeTeamReview
    THEN "getCodeTeams" ELSE mergePc

\* reviewPc with the two tests in the other order: the plain review check is
\* preferred whenever it is enabled.
reviewPcApprovedFirst(entries) ==
    IF cfg.requireApprovedReview THEN "approvedReview"
    ELSE IF cfg.requireCodeOwnerReview /\ Len(entries) # 0 THEN "codeOwnerReview"
    ELSE teamsPc

\* main.ts 150 and 168, on the entries the run holds.
reviewPc(entries) ==
    IF cfg.requireCodeOwnerReview /\ Len(entries) # 0 THEN "codeOwnerReview"
    ELSE IF cfg.requireApprovedReview THEN "approvedReview"
    ELSE teamsPc

\* main.ts 108-112
needsCodeOwners ==
    cfg.requireCodeOwnersFile \/ cfg.requireActorIsCodeOwner \/ cfg.requireCodeOwnerReview

\* info('Check x') when the flag is set, and info('Passed x') after it.
Checked(lines, flag, name) == IF flag THEN Append(lines, "Check " \o name) ELSE lines
Passed(lines, flag, name) == IF flag THEN Append(lines, "Passed " \o name) ELSE lines

\* notice(text) when the condition holds (main.ts 127-129, 200-202).
Noticed(lines, flag, text) == IF flag THEN Append(lines, "notice: " \o text) ELSE lines

\* main.ts 103-107 and 287-289
GetPull ==
    /\ pc = "getPull"
    /\ \E resp \in PullResponses :
          /\ pr' = resp
          /\ IF ~resp.isNull /\ resp.hasUser
             THEN /\ pc' = IF needsCodeOwners THEN "getCodeOwners" ELSE reviewPc(<<>>)
                  /\ error' = error
             ELSE /\ pc' = "failed"
                  /\ error' = Thrown("Unable to get pull request")
    /\ calls' = Append(calls, "pulls.get")
    /\ UNCHANGED <<baseRef, content, cfg, actor, codeOwnerEntries, files, isOwner, owners, reviews,
                   hasReview, codeTeamEntries, labels, entryIdx, pullUser, log>>

\* main.ts 113-123
GetCodeOwners ==
    /\ pc = "getCodeOwners"
    /\ \E repo \in OwnersRepos :
          LET got     == getCodeOwners(repo)
              started == Checked(log, cfg.requireCodeOwnersFile, "require_codeowners_file")
          IN  /\ calls' = calls \o Probes(OwnersCandidates, got.probes)
              /\ content' = got.text
              /\ baseRef' = repo
              /\ IF got.threw
                 THEN /\ pc' = "failed"
                      /\ error' = Thrown("getContent failed")
                      /\ log' = started
                      /\ UNCHANGED codeOwnerEntries
                 ELSE /\ codeOwnerEntries' = got.entries
                      /\ IF cfg.requireCodeOwnersFile /\ Len(got.entries) = 0
                         THEN /\ pc' = "failed"
                              /\ error' = Thrown("Failed to get CODEOWNERS")
                              /\ log' = started
                         ELSE /\ pc' = "getPullFiles"
                              /\ error' = error
                              /\ log' = Passed(started, cfg.requireCodeOwnersFile,
                                               "require_codeowners_file")
    /\ UNCHANGED <<cfg, actor, pr, files, isOwner, owners, reviews, hasReview,
                   codeTeamEntries, labels, entryIdx, pullUser>>

\* main.ts 124-148
GetPullFiles ==
    /\ pc = "getPullFiles"
    /\ \E names \in RunFileNames :
          LET fs      == [i \in 1..Len(names) |-> <<"/">> \o names[i]]
              started == Checked(log, cfg.requireActorIsCodeOwner, "require_code_owner")
              verdict == isActorOwner(actor, fs, codeOwnerEntries)
          IN  /\ files' = fs
              /\ IF cfg.requireActorIsCodeOwner /\ Len(codeOwnerEntries) # 0
                 THEN /\ isOwner' = verdict
                      /\ IF verdict.result
                         THEN /\ pc' = reviewPc(codeOwnerEntries)
                              /\ error' = error
                              /\ log' = Passed(started, TRUE, "require_code_owner")
                         ELSE /\ pc' = "failed"
                              /\ error' = Thrown("don't own all the changed files")
                              /\ log' = started
                 ELSE /\ pc' = reviewPc(codeOwnerEntries)
                      /\ log' = Passed(Noticed(started, cfg.requireActorIsCodeOwner,
                                               "Found no CODEOWNERS file"),
                                       cfg.requireActorIsCodeOwner, "require_code_owner")
                      /\ UNCHANGED <<isOwner, error>>
    /\ calls' = Append(calls, "pulls.listFiles")
    /\ UNCHANGED <<baseRef, content, cfg, actor, pr, codeOwnerEntries, owners, reviews, hasReview,
                   codeTeamEntries, labels, entryIdx, pullUser>>

\* main.ts 150-167
CodeOwnerReview ==
    /\ pc = "codeOwnerReview"
    /\ owners' = getPullCodeOwners(files, codeOwnerEntries)
    /\ \E resp \in RunReviews :
          /\ reviews' = resp
          /\ hasReview' = isReviewed(resp, owners'.owners, pr.login)
    /\ calls' = Append(calls, "pulls.listReviews")
    /\ IF hasReview'.result
       THEN /\ pc' = teamsPc
            /\ error' = error
            /\ log' = log \o <<"Check require_code_owner_review",
                               "Passed require_code_owner_review">>
       ELSE /\ pc' = "failed"
            /\ error' = [Thrown("has not been approved by a code owner")
                            EXCEPT !.users = owners'.owners]
            /\ log' = Append(log, "Check require_code_owner_review")
    /\ UNCHANGED <<baseRef, content, cfg, actor, pr, codeOwnerEntries, files, isOwner,
                   codeTeamEntries, labels, entryIdx, pullUser>>

\* The block of main.ts 168-181 without its throw: the error is kept and the
\* run goes on to the next check.
ApprovedReviewGoesOn ==
    /\ pc = "approvedReview"
    /\ \E resp \in RunReviews :
          /\ reviews' = resp
          /\ hasReview' = isReviewed(resp, <<>>, pr.login)
    /\ calls' = Append(calls, "pulls.listReviews")
    /\ pc' = teamsPc
    /\ IF hasReview'.result
       THEN /\ error' = error
            /\ log' = log \o <<"Check require_approved_review",
                               "Passed require_approved_review">>
       ELSE /\ error' = Thrown("has not been approved")
            /\ log' = Append(log, "Check require_approved_review")
    /\ UNCHANGED <<baseRef, content, cfg, actor, pr, codeOwnerEntries, files, isOwner, owners,
                   codeTeamEntries, labels, entryIdx, pullUser>>

\* main.ts 168-181
ApprovedReview ==
    /\ pc = "approvedReview"
    /\ \E resp \in RunReviews :
          /\ reviews' = resp
          /\ hasReview' = isReviewed(resp, <<>>, pr.login)
    /\ calls' = Append(calls, "pulls.listReviews")
    /\ IF hasReview'.result
       THEN /\ pc' = teamsPc
            /\ error' = error
            /\ log' = log \o <<"Check require_approved_review",
                               "Passed require_approved_review">>
       ELSE /\ pc' = "failed"
            /\ error' = Thrown("has not been approved")
            /\ log' = Append(log, "Check require_approved_review")
    /\ UNCHANGED <<baseRef, content, cfg, actor, pr, codeOwnerEntries, files, isOwner, owners,
                   codeTeamEntries, labels, entryIdx, pullUser>>

\* main.ts 182-203
GetCodeTeams ==
    /\ pc = "getCodeTeams"
    /\ \E repo \in TeamsRepos :
          LET got     == getCodeTeams(repo)
              started == Checked(log, cfg.requireCodeTeamsFile, "require_codeteams_file")
              passed  == Passed(started, cfg.requireCodeTeamsFile, "require_codeteams_file")
          IN  /\ calls' = calls \o Probes(TeamsCandidates, got.probes)
              /\ content' = got.text
              /\ baseRef' = repo
              /\ IF got.threw
                 THEN /\ pc' = "failed"
                      /\ error' = Thrown("getContent failed")
                      /\ log' = started
                      /\ UNCHANGED codeTeamEntries
                 ELSE /\ codeTeamEntries' = got.entries
                      /\ IF cfg.requireCodeTeamsFile /\ Len(got.entries) = 0
                         THEN /\ pc' = "failed"
                              /\ error' = Thrown("Failed to get CODETEAMS")
                              /\ log' = started
                         ELSE IF Len(got.entries) # 0 /\ cfg.requireCodeTeamReview
                         THEN /\ pc' = "getLabels"
                              /\ error' = error
                              /\ log' = Append(passed, "Check require_code_team_review")
                         ELSE /\ pc' = mergePc
                              /\ error' = error
                              /\ log' = Noticed(passed, Len(got.entries) = 0,
                                                "Found no CODETEAMS file")
    /\ UNCHANGED <<cfg, actor, pr, codeOwnerEntries, files, isOwner, owners,
                   reviews, hasReview, labels, entryIdx, pullUser>>

\* main.ts 204-210
GetLabels ==
    /\ pc = "getLabels"
    /\ \E resp \in RunLabels :
          /\ labels' = resp
          /\ IF resp.isNull
             THEN /\ pc' = "failed"
                  /\ error' = Thrown("has no labels")
                  /\ UNCHANGED entryIdx
             ELSE /\ pc' = "teamEntry"
                  /\ error' = error
                  /\ entryIdx' = 1
    /\ calls' = Append(calls, "issues.listLabelsOnIssue")
    /\ UNCHANGED <<baseRef, content, cfg, actor, pr, codeOwnerEntries, files, isOwner, owners,
                   reviews, hasReview, codeTeamEntries, pullUser, log>>

\* The missing-label branch without its throw: the entry is passed over and
\* the loop goes on.
TeamLabelMissingPassedOver ==
    /\ pc = "teamEntry"
    /\ ~\E n \in 1..Len(labels.data) : labels.data[n] = codeTeamEntries[entryIdx].label
    /\ IF entryIdx < Len(codeTeamEntries)
       THEN /\ pc' = "teamEntry"
            /\ entryIdx' = entryIdx + 1
            /\ UNCHANGED log
       ELSE /\ pc' = mergePc
            /\ log' = Append(log, "Passed require_code_team_review")
            /\ UNCHANGED entryIdx
    /\ UNCHANGED <<baseRef, content, cfg, actor, pr, codeOwnerEntries, files, isOwner, owners,
                   reviews, hasReview, codeTeamEntries, labels, pullUser,
                   error, calls>>

\* main.ts 211-216: the entry's label is not on the pull request.
TeamLabelMissing ==
    /\ pc = "teamEntry"
    /\ ~\E n \in 1..Len(labels.data) : labels.data[n] = codeTeamEntries[entryIdx].label
    /\ pc' = "failed"
    /\ error' = [Thrown("Found required label")
                    EXCEPT !.label = codeTeamEntries[entryIdx].label]
    /\ UNCHANGED <<baseRef, content, cfg, actor, pr, codeOwnerEntries, files, isOwner, owners,
                   reviews, hasReview, codeTeamEntries, labels, entryIdx,
                   pullUser, calls, log>>

\* TeamEntryReview failing a rule that lists no user without looking at the
\* reviews it has read.
TeamEntryReviewNeedsUser ==
    /\ pc = "teamEntry"
    /\ \E n \in 1..Len(labels.data) : labels.data[n] = codeTeamEntries[entryIdx].label
    /\ pullUser' = IF Len(codeTeamEntries[entryIdx].users) # 1
                   THEN pr.login ELSE SkipPrUserTest
    /\ \E resp \in RunReviews :
          /\ reviews' = resp
          /\ hasReview' = IF Len(codeTeamEntries[entryIdx].users) = 0 THEN NoReview
                          ELSE isReviewed(resp, codeTeamEntries[entryIdx].users, pullUser')
    /\ calls' = Append(calls, "pulls.listReviews")
    /\ IF ~hasReview'.result
       THEN /\ pc' = "failed"
            /\ error' = [Thrown("has not been approved by a code team user")
                            EXCEPT !.label = codeTeamEntries[entryIdx].label,
                                   !.users = codeTeamEntries[entryIdx].users]
            /\ UNCHANGED <<entryIdx, log>>
       ELSE IF entryIdx < Len(codeTeamEntries)
       THEN /\ pc' = "teamEntry"
            /\ entryIdx' = entryIdx + 1
            /\ UNCHANGED <<error, log>>
       ELSE /\ pc' = mergePc
            /\ log' = Append(log, "Passed require_code_team_review")
            /\ UNCHANGED <<error, entryIdx>>
    /\ UNCHANGED <<baseRef, content, cfg, actor, pr, codeOwnerEntries, files, isOwner, owners,
                   codeTeamEntries, labels>>

\* main.ts 211-237: the entry's label is on the pull request.
TeamEntryReview ==
    /\ pc = "teamEntry"
    /\ \E n \in 1..Len(labels.data) : labels.data[n] = codeTeamEntries[entryIdx].label
    /\ pullUser' = IF Len(codeTeamEntries[entryIdx].users) # 1
                   THEN pr.login ELSE SkipPrUserTest
    /\ \E resp \in RunReviews :
          /\ reviews' = resp
          /\ hasReview' = isReviewed(resp, codeTeamEntries[entryIdx].users, pullUser')
    /\ calls' = Append(calls, "pulls.listReviews")
    /\ IF ~hasReview'.result
       THEN /\ pc' = "failed"
            /\ error' = [Thrown("has not been approved by a code team user")
                            EXCEPT !.label = codeTeamEntries[entryIdx].label,
                                   !.users = codeTeamEntries[entryIdx].users]
            /\ UNCHANGED <<entryIdx, log>>
       ELSE IF entryIdx < Len(codeTeamEntries)
       THEN /\ pc' = "teamEntry"
            /\ entryIdx' = entryIdx + 1
            /\ UNCHANGED <<error, log>>
       ELSE /\ pc' = mergePc
            /\ log' = Append(log, "Passed require_code_team_review")
            /\ UNCHANGED <<error, entryIdx>>
    /\ UNCHANGED <<baseRef, content, cfg, actor, pr, codeOwnerEntries, files, isOwner, owners,
                   codeTeamEntries, labels>>

\* main.ts 250-276: the phrase for a mergeable state.
mergeMessage(state) ==
    CASE state = "clean" -> "is in a clean state"
      [] state = "has_hooks" -> "has a passing commit status with pre-receive hooks"
      [] state = "unstable" -> "has a non-passing commit status (unstable)"
      [] state = "behind" -> "has out of date head ref"
      [] state = "blocked" -> "is blocked"
      [] state = "dirty" -> "is dirty, the merge commit cannot be cleanly created"
      [] state = "draft" -> "is blocked due to the pull request being a draft"
      [] OTHER -> "is in a undetermined state"

\* mergeableError with the tests of main.ts 242 and 244 in the other order:
\* an unknown mergeable value fails a merged pull request too.
mergeableErrorNullFirst(pull, states) ==
    IF pull.mergeable = "null" THEN Thrown("mergable state is unknown")
    ELSE IF pull.merged THEN NoError
    ELSE IF pull.mergeable = "true"
         THEN IF includes(states, pull.mergeable_state) THEN NoError
              ELSE [Thrown("mergeable state not allowed")
                       EXCEPT !.detail = mergeMessage(pull.mergeable_state)]
    ELSE Thrown("is not mergable")

\* main.ts 240-286: the Error the block throws, NoError when it passes.
mergeableError(pull, states) ==
    IF pull.merged THEN NoError
    ELSE IF pull.mergeable = "null" THEN Thrown("mergable state is unknown")
    ELSE IF pull.mergeable = "true"
         THEN IF includes(states, pull.mergeable_state) THEN NoError
              ELSE [Thrown("mergeable state not allowed")
                       EXCEPT !.detail = mergeMessage(pull.mergeable_state)]
    ELSE Thrown("is not mergable")

\* main.ts 240-286
MergeableState ==
    /\ pc = "mergeableState"
    /\ LET thrown == mergeableError(pr, cfg.requiredMergeableState.states)
       IN  IF thrown = NoError
           THEN /\ pc' = "allChecks"
                /\ error' = error
                /\ log' = log \o <<"Check required_mergeable_state",
                                   "Passed required_mergeable_state">>
           ELSE /\ pc' = "failed"
                /\ error' = thrown
                /\ log' = Append(log, "Check required_mergeable_state")
    /\ UNCHANGED <<baseRef, content, cfg, actor, pr, codeOwnerEntries, files, isOwner, owners,
                   reviews, hasReview, codeTeamEntries, labels, entryIdx,
                   pullUser, calls>>

\* main.ts 290
Complete ==
    /\ pc = "allChecks"
    /\ pc' = "completed"
    /\ log' = Append(log, "All checks completed.")
    /\ UNCHANGED <<baseRef, content, cfg, actor, pr, codeOwnerEntries, files, isOwner, owners,
                   reviews, hasReview, codeTeamEntries, labels, entryIdx,
                   pullUser, error, calls>>

Next ==
    \/ GetPull
    \/ GetCodeOwners
    \/ GetPullFiles
    \/ CodeOwnerReview
    \/ ApprovedReview
    \/ GetCodeTeams
    \/ GetLabels
    \/ TeamLabelMissing
    \/ TeamEntryReview
    \/ MergeableState
    \/ Complete

Spec == Init /\ [][Next]_vars

(***************************************************************************)
(* Claims about the run, checked under Spec                                *)
(***************************************************************************)

\* The last line written to the log.
LastLog == IF Len(log) = 0 THEN "" ELSE log[Len(log)]

\* The review at position n of the last response is an approval by a user
\* other than the one who opened the pull request.
ApprovedByOther(n) ==
    /\ reviews.data[n].state = "APPROVED"
    /\ reviews.data[n].hasUser
    /\ reviews.data[n].login # pr.login

\* C2 as stated: the plain approved-review check passes only if some
\* APPROVED review has a reviewer different from the pull request author.
C2_PlainApprovalNotByAuthor ==
    LastLog = "Passed require_approved_review" =>
        \E n \in 1..Len(reviews.data) : ApprovedByOther(n)

\* C3 as stated: whenever the code-owner review check passes, the review
\* list holds an APPROVED review by a code owner of the changed files who
\* is not the user who opened the pull request.
C3_OwnerApprovalNotByAuthor ==
    LastLog = "Passed require_code_owner_review" =>
        \E n \in 1..Len(reviews.data) :
            /\ ApprovedByOther(n)
            /\ \E i \in 1..Len(files) : \E j \in MatchingEntries(files[i]) :
                  includes(codeOwnerEntries[j].owners, At(reviews.data[n].login))

\* The position in calls of the request for the labels (0 before it).
LabelsCall ==
    IF \E k \in 1..Len(calls) : calls[k] = "issues.listLabelsOnIssue"
    THEN CHOOSE k \in 1..Len(calls) : calls[k] = "issues.listLabelsOnIssue"
    ELSE 0

\* The requests sent by the loop over the team entries.
TeamLoopCalls == IF LabelsCall = 0 THEN <<>> ELSE SubSeq(calls, LabelsCall + 1, Len(calls))

OnPull(label) == \E n \in 1..Len(labels.data) : labels.data[n] = label

\* C9: when the loop over the team entries comes to an entry whose label is
\* not on the pull request it throws the error naming that label without
\* requesting reviews for it: that entry is the first one in the reversed
\* file order with a missing label, the loop has requested reviews once for
\* each entry before it and for nothing else, and the run ends there. The
\* team check passes only if every declared label is on the pull request.
C9_FailsAtFirstMissingLabel ==
    /\ error.msg = "Found required label" =>
          /\ pc = "failed"
          /\ error.label = codeTeamEntries[entryIdx].label
          /\ ~OnPull(error.label)
          /\ \A k \in 1..(entryIdx - 1) : OnPull(codeTeamEntries[k].label)
          /\ TeamLoopCalls = [k \in 1..(entryIdx - 1) |-> "pulls.listReviews"]
          /\ ~ENABLED Next
    /\ (\E k \in 1..Len(log) : log[k] = "Passed require_code_team_review") =>
          \A k \in 1..Len(codeTeamEntries) : OnPull(codeTeamEntries[k].label)
    /\ Len(codeTeamEntries) = 2 =>
          /\ codeTeamEntries[1].label = LabelT
          /\ codeTeamEntries[2].label = LabelS

\* The first entry passed its review and the second one has no label.
C9_Witness ==
    /\ error.msg = "Found required label"
    /\ entryIdx = 2
    /\ error.label = LabelS
    /\ Len(TeamLoopCalls) = 1

\* The team entry the last response of pulls.listReviews was requested for
\* (0 when the loop has requested none).
LastTeamEntry ==
    IF Len(TeamLoopCalls) = 0 THEN 0
    ELSE IF pc = "teamEntry" \/ error.msg = "Found required label"
         THEN entryIdx - 1
    ELSE entryIdx

\* C10 as stated: a team rule whose label is on the pull request passes iff
\* there is an APPROVED review by a user listed in the rule who is not the
\* author, or the rule lists exactly one user and that user approved.
C10_TeamRulePassesIffMemberApproved ==
    LastTeamEntry > 0 =>
        LET users == codeTeamEntries[LastTeamEntry].users
        IN  hasReview.result <=>
               \E n \in 1..Len(reviews.data) :
                   /\ reviews.data[n].state = "APPROVED"
                   /\ includes(users, reviewerTag(reviews.data[n]))
                   /\ \/ ApprovedByOther(n)
                      \/ Len(users) = 1

\* C11 as stated: the CODETEAMS line with a double-quoted label holding a
\* space is parsed as one rule whose label is the text between the quotes
\* and whose users are the two names after it, and a pull request carrying
\* that label is not failed for a missing label.
C11_QuotedLabelIsOneRule ==
    (content = TeamsQuoted /\ pc # "getCodeTeams") =>
        /\ codeTeamEntries = <<[label |-> LabelQuoted, users |-> <<At(alice), At(bob)>>]>>
        /\ (~labels.isNull /\ OnPull(LabelQuoted)) => error.msg # "Found required label"

(***************************************************************************)
(* SpecMergeable: the block of main.ts 240-291 on all bounded pull         *)
(* requests and lists of allowed states                                    *)
(***************************************************************************)

MaxAllowed == 2   \* states listed in required_mergeable_state

\* The values of mergeable_state: the seven of the switch of main.ts 251-275
\* and one it does not name.
MergeStates ==
    {"clean", "has_hooks", "unstable", "behind", "blocked", "dirty", "draft", "unknown"}

\* The non-empty lists of allowed states (main.ts 240).
AllowedLists == SeqsUpTo(MergeStates, MaxAllowed) \ {<<>>}

MergeableInit ==
    /\ \E states \in AllowedLists :
          cfg = [NoCfg EXCEPT !.requiredMergeableState = [defined |-> TRUE, states |-> states]]
    /\ actor = alice
    /\ pc = "mergeableState"
    /\ \E mg \in BOOLEAN, ma \in {"null", "true", "false"}, st \in MergeStates :
          pr = Pull(alice, mg, ma, st)
    /\ codeOwnerEntries = <<>>
    /\ files = <<>>
    /\ isOwner = NoVerdict
    /\ owners = NoOwners
    /\ reviews = Null
    /\ hasReview = NoReview
    /\ codeTeamEntries = <<>>
    /\ labels = Null
    /\ entryIdx = 0
    /\ pullUser = <<>>
    /\ error = NoError
    /\ calls = <<"pulls.get">>
    /\ content = <<>>
    /\ baseRef = <<>>
    /\ log = <<>>

MergeableNext == MergeableState \/ Complete

SpecMergeable == MergeableInit /\ [][MergeableNext]_vars

\* The mergeable-state check has run and passed, or has thrown.
MergeablePassed ==
    /\ pc \in {"allChecks", "completed"}
    /\ error = NoError
    /\ \E k \in 1..Len(log) : log[k] = "Passed required_mergeable_state"
MergeableFailed == pc = "failed" /\ error # NoError

\* The state of the pull request is one of the listed states.
StateListed ==
    \E k \in 1..Len(cfg.requiredMergeableState.states) :
        cfg.requiredMergeableState.states[k] = pr.mergeable_state

\* C12: with a non-empty list of allowed states the check decides in this
\* order: a merged pull request passes whatever else holds; otherwise an
\* unknown (null) mergeable value fails; otherwise a mergeable pull request
\* passes exactly when its state is listed, a state the switch does not
\* name included; otherwise the pull request fails even with a listed state.
C12_MergeablePriorityOrder ==
    pc # "mergeableState" =>
        /\ MergeablePassed \/ MergeableFailed
        /\ pr.merged => MergeablePassed
        /\ (~pr.merged /\ pr.mergeable = "null") =>
              MergeableFailed /\ error.msg = "mergable state is unknown"
        /\ (~pr.merged /\ pr.mergeable = "true") => (MergeablePassed <=> StateListed)
        /\ (~pr.merged /\ pr.mergeable = "true" /\ ~StateListed) =>
              error.detail = mergeMessage(pr.mergeable_state)
        /\ (~pr.merged /\ pr.mergeable = "false") =>
              MergeableFailed /\ error.msg = "is not mergable"

\* A merged pull request with an unknown mergeable value and a state that is
\* not listed passes.
C12_Witness ==
    /\ pc = "allChecks"
    /\ pr.merged /\ pr.mergeable = "null" /\ ~StateListed
    /\ MergeablePassed

\* C13 as stated: the check passes exactly when the mergeable_state of the
\* pull request is one of the listed states.
C13_PassesIffStateListed ==
    pc # "mergeableState" => (MergeablePassed <=> StateListed)

(***************************************************************************)
(* The order of the checks of a run, checked under Spec                    *)
(***************************************************************************)

\* The checks in the order of the claim, as their lines in the log name
\* them, and the place of each in that order: the two review checks share
\* the third place.
CheckNames ==
    <<"require_codeowners_file", "require_code_owner", "require_code_owner_review",
      "require_approved_review", "require_codeteams_file",
      "require_code_team_review", "required_mergeable_state">>
CheckRank == <<1, 2, 3, 3, 4, 5, 6>>

\* The lines info('Check x') and info('Passed x') of each check.
CheckLines == [k \in 1..Len(CheckNames) |-> "Check " \o CheckNames[k]]
PassedLines == [k \in 1..Len(CheckNames) |-> "Passed " \o CheckNames[k]]

\* The check a log line opens ('Check x'), 0 when it opens none.
CheckOpened(line) ==
    IF \E k \in 1..Len(CheckNames) : line = CheckLines[k]
    THEN CHOOSE k \in 1..Len(CheckNames) : line = CheckLines[k]
    ELSE 0

\* Check k was started, and was passed.
Started(k) == \E i \in 1..Len(log) : log[i] = CheckLines[k]
PassedCheck(k) ==
    \E j \in 1..Len(log) :
        /\ log[j] = PassedLines[k]
        /\ \E i \in 1..(j - 1) : log[i] = CheckLines[k]

\* The check whose failure an error message reports, 0 for the errors that
\* are not the failure of a check.
FailedCheck(msg) ==
    CASE msg = "Failed to get CODEOWNERS" -> 1
      [] msg = "don't own all the changed files" -> 2
      [] msg = "has not been approved by a code owner" -> 3
      [] msg = "has not been approved" -> 4
      [] msg = "Failed to get CODETEAMS" -> 5
      [] msg \in {"has no labels", "Found required label",
                  "has not been approved by a code team user"} -> 6
      [] msg \in {"mergable state is unknown", "mergeable state not allowed",
                  "is not mergable"} -> 7
      [] OTHER -> 0

\* Check k is enabled by the inputs and applies to what the run has read.
Applies(k) ==
    CASE k = 1 -> cfg.requireCodeOwnersFile
      [] k = 2 -> cfg.requireActorIsCodeOwner
      [] k = 3 -> cfg.requireCodeOwnerReview /\ Len(codeOwnerEntries) # 0
      [] k = 4 -> cfg.requireApprovedReview
                    /\ ~(cfg.requireCodeOwnerReview /\ Len(codeOwnerEntries) # 0)
      [] k = 5 -> cfg.requireCodeTeamsFile
      [] k = 6 -> cfg.requireCodeTeamReview /\ Len(codeTeamEntries) # 0
      [] k = 7 -> cfg.requiredMergeableState.defined
                    /\ Len(cfg.requiredMergeableState.states) > 0

\* C14: the checks are started in the one fixed order, each at most once
\* and only when enabled; a check is started only after every check started
\* before it has passed; an error ends the run, with no further step and so
\* no further check or request; a failure of a check is the failure of the
\* check started last, every enabled check before it having passed; and a
\* run completes only with every started check passed and no error.
C14_FixedOrderStopsAtFirstFailure ==
    /\ \A j \in 1..Len(log) :
          CheckOpened(log[j]) > 0 =>
              \A i \in 1..(j - 1) :
                  CheckOpened(log[i]) > 0 =>
                      /\ CheckRank[CheckOpened(log[i])] < CheckRank[CheckOpened(log[j])]
                      /\ PassedCheck(CheckOpened(log[i]))
    /\ \A k \in 1..Len(CheckNames) : Started(k) => Applies(k)
    /\ (pc = "failed") <=> (error # NoError)
    /\ pc = "failed" => ~ENABLED Next
    /\ (pc = "failed" /\ FailedCheck(error.msg) > 0) =>
          /\ Started(FailedCheck(error.msg))
          /\ ~PassedCheck(FailedCheck(error.msg))
          /\ \A k \in 1..Len(CheckNames) :
                CheckRank[k] < CheckRank[FailedCheck(error.msg)] =>
                    /\ Applies(k) => PassedCheck(k)
                    /\ Started(k) => PassedCheck(k)
    /\ pc = "completed" =>
          /\ error = NoError
          /\ \A k \in 1..Len(CheckNames) : Applies(k) <=> PassedCheck(k)

\* The team review fails after four checks have passed, and the mergeable
\* state, which is required too, is never looked at.
C14_Witness ==
    /\ pc = "failed"
    /\ error.msg = "has not been approved by a code team user"
    /\ PassedCheck(1) /\ PassedCheck(2) /\ PassedCheck(3) /\ PassedCheck(5)
    /\ Applies(7) /\ ~Started(7)
    /\ calls[Len(calls)] = "pulls.listReviews"

(***************************************************************************)
(* Missing declaration files, checked under Spec                           *)
(***************************************************************************)

Requested(call) == \E k \in 1..Len(calls) : calls[k] = call
Logged(line) == \E k \in 1..Len(log) : log[k] = line

\* The lookup went through every candidate. In the runs a request fails
\* only for the first or the second candidate, so a lookup that asks for
\* the last one has found no file at any candidate path.
OwnersAbsent == Requested(OwnersCandidates[Len(OwnersCandidates)])
TeamsAbsent == Requested(TeamsCandidates[Len(TeamsCandidates)])

\* C15: a lookup that finds no CODEOWNERS (resp. CODETEAMS) file at any
\* candidate path gives no entry and raises no error of its own; the run
\* then throws 'Failed to get CODEOWNERS' (resp. CODETEAMS) exactly when
\* require_codeowners_file (resp. require_codeteams_file) is set. With it
\* unset, the actor check passes with a notice for any actor, isActorOwner
\* not being called, and the team review is left out with a notice: no
\* labels are requested and the check is not started.
C15_MissingFileFailsOnlyIfRequired ==
    /\ OwnersAbsent =>
          /\ codeOwnerEntries = <<>>
          /\ ~Requested("pulls.listFiles") => error.msg # "getContent failed"
          /\ (error.msg = "Failed to get CODEOWNERS") <=> cfg.requireCodeOwnersFile
          /\ cfg.requireCodeOwnersFile => pc = "failed"
          /\ (cfg.requireActorIsCodeOwner /\ Requested("pulls.listFiles")) =>
                /\ PassedCheck(2)
                /\ Logged("notice: Found no CODEOWNERS file")
                /\ isOwner = NoVerdict
          /\ ~Started(3)
    /\ TeamsAbsent =>
          /\ codeTeamEntries = <<>>
          /\ error.msg # "getContent failed"
          /\ (error.msg = "Failed to get CODETEAMS") <=> cfg.requireCodeTeamsFile
          /\ cfg.requireCodeTeamsFile => pc = "failed"
          /\ ~cfg.requireCodeTeamsFile =>
                /\ Logged("notice: Found no CODETEAMS file")
                /\ ~Started(6)
                /\ ~Requested("issues.listLabelsOnIssue")
                /\ FailedCheck(error.msg) \in {0, 7}

\* Neither file exists and neither is required: bob, who is listed nowhere,
\* passes the actor check and the run completes without a team review.
C15_Witness ==
    /\ pc = "completed"
    /\ actor = bob
    /\ OwnersAbsent /\ TeamsAbsent
    /\ cfg.requireActorIsCodeOwner /\ cfg.requireCodeOwnerReview /\ cfg.requireCodeTeamReview
    /\ PassedCheck(2)
    /\ ~Started(6)

(***************************************************************************)
(* SpecParse: getCodeOwners and getCodeTeams on all bounded texts of a     *)
(* declaration file found at the first candidate path                      *)
(***************************************************************************)

MaxText == 5   \* characters of a declaration file

\* Two token characters, a blank, the comment sign and a line ending.
ParseChars == {"p", "q", " ", "#", "\n"}

\* The text of the scenario of the specification, and a text with a tab and
\* the three line endings.
TextExample ==
    <<"*", ".", "m", "d", " ", "@", "d", "o", "c", "-", "o", "w", "n", "e",
      "r", "\n", "/", "s", "r", "c", "/", " ", "@", "c", "o", "r", "e", "-",
      "o", "w", "n", "e", "r", "\n">>
TextLineEndings ==
    <<"p", "\t", "q", "\r", "\n", "q", " ", "p", "\r", "q", " ", "q", "\n">>

ParseTexts == SeqsUpTo(ParseChars, MaxText) \cup {TextExample, TextLineEndings}

ParseInit ==
    /\ cfg = NoCfg
    /\ actor = alice
    /\ pc = "getCodeOwners"
    /\ pr = NoPull
    /\ codeOwnerEntries = <<>>
    /\ files = <<>>
    /\ isOwner = NoVerdict
    /\ owners = NoOwners
    /\ reviews = Null
    /\ hasReview = NoReview
    /\ codeTeamEntries = <<>>
    /\ labels = Null
    /\ entryIdx = 0
    /\ pullUser = <<>>
    /\ error = NoError
    /\ calls = <<>>
    /\ content \in ParseTexts
    /\ baseRef = AtRoot(content)
    /\ log = <<>>

\* Helper.getCodeOwners on the files at the base ref: the entries it
\* returns, or the error it throws.
GetCodeOwnersCall ==
    /\ pc = "getCodeOwners"
    /\ LET got == getCodeOwners(baseRef)
       IN  /\ calls' = calls \o Probes(OwnersCandidates, got.probes)
           /\ content' = got.text
           /\ IF got.threw
              THEN /\ pc' = "failed"
                   /\ error' = Thrown("getContent failed")
                   /\ UNCHANGED codeOwnerEntries
              ELSE /\ pc' = "getCodeTeams"
                   /\ codeOwnerEntries' = got.entries
                   /\ UNCHANGED error
    /\ UNCHANGED <<baseRef, cfg, actor, pr, files, isOwner, owners, reviews,
                   hasReview, codeTeamEntries, labels, entryIdx, pullUser, log>>

\* Helper.getCodeTeams on the same files.
GetCodeTeamsCall ==
    /\ pc = "getCodeTeams"
    /\ LET got == getCodeTeams(baseRef)
       IN  /\ calls' = calls \o Probes(TeamsCandidates, got.probes)
           /\ content' = got.text
           /\ IF got.threw
              THEN /\ pc' = "failed"
                   /\ error' = Thrown("getContent failed")
                   /\ UNCHANGED codeTeamEntries
              ELSE /\ pc' = "parsed"
                   /\ codeTeamEntries' = got.entries
                   /\ UNCHANGED error
    /\ UNCHANGED <<baseRef, cfg, actor, pr, codeOwnerEntries, files, isOwner,
                   owners, reviews, hasReview, labels, entryIdx, pullUser, log>>

ParseNext == GetCodeOwnersCall \/ GetCodeTeamsCall

SpecParse == ParseInit /\ [][ParseNext]_vars

(***************************************************************************)
(* Claims about the parser, checked under SpecParse                        *)
(* The words of a line are given here by position, independently of the    *)
(* replace, trim and split of the code.                                    *)
(***************************************************************************)

\* The lines of the text that pass the test of helper.ts 241 and 276.
Kept(line) == line # <<>> /\ line[1] # "#"
KeptLines == SelectSeq(splitLines(content), Kept)

\* The part of a line before its first '#'.
FirstHash(line) ==
    IF \E i \in 1..Len(line) : line[i] = "#"
    THEN CHOOSE i \in 1..Len(line) :
             line[i] = "#" /\ \A k \in 1..(i - 1) : line[k] # "#"
    ELSE Len(line) + 1
BeforeHash(line) == SubSeq(line, 1, FirstHash(line) - 1)

\* Where the maximal runs of non-blank characters of s start, where the
\* run starting at i ends, and the start of the k-th run.
RunStarts(s) == {i \in 1..Len(s) : ~IsSpace(s[i]) /\ (i = 1 \/ IsSpace(s[i - 1]))}
RunEnd(s, i) ==
    CHOOSE j \in i..Len(s) :
        /\ \A k \in i..j : ~IsSpace(s[k])
        /\ j = Len(s) \/ IsSpace(s[j + 1])
NthStart(s, k) ==
    CHOOSE i \in RunStarts(s) : Cardinality({x \in RunStarts(s) : x < i}) = k - 1

\* The words of a line: the runs before the first '#', in order; the one
\* empty word when there is no run.
LineWords(line) ==
    LET s == BeforeHash(line)
    IN  IF RunStarts(s) = {} THEN << <<>> >>
        ELSE [k \in 1..Cardinality(RunStarts(s)) |->
                 SubSeq(s, NthStart(s, k), RunEnd(s, NthStart(s, k)))]

\* The first kept line whose first word is w.
FirstLineWith(w) ==
    CHOOSE k \in 1..Len(KeptLines) :
        /\ Head(LineWords(KeptLines[k])) = w
        /\ \A m \in 1..(k - 1) : Head(LineWords(KeptLines[m])) # w

\* The team entries written as owner entries: label as path, users as owners.
TeamsAsOwners ==
    [i \in 1..Len(codeTeamEntries) |->
        [path |-> codeTeamEntries[i].label, owners |-> codeTeamEntries[i].users]]

\* The entry made from a kept line.
EntryOf(line) == [path |-> Head(LineWords(line)), owners |-> Tail(LineWords(line))]

\* No two kept lines have the same first word.
DistinctFirstWords ==
    \A i, j \in 1..Len(KeptLines) :
        i # j => Head(LineWords(KeptLines[i])) # Head(LineWords(KeptLines[j]))

\* entries holds the kept lines, last line first.
ReversedLines(entries) ==
    /\ Len(entries) = Len(KeptLines)
    /\ \A i \in 1..Len(entries) : entries[i] = EntryOf(KeptLines[Len(KeptLines) + 1 - i])

\* C16: getCodeOwners and getCodeTeams return the entries in reversed file
\* order: when no two kept lines have the same first token the i-th entry
\* returned is made from the (n+1-i)-th kept line, and the text
\* "*.md @doc-owner\n/src/ @core-owner\n" gives the entry of /src/ first.
C16_EntriesInReversedFileOrder ==
    pc = "parsed" =>
        /\ DistinctFirstWords =>
              ReversedLines(codeOwnerEntries) /\ ReversedLines(TeamsAsOwners)
        /\ content = TextExample =>
              codeOwnerEntries =
                  <<[path |-> <<"/", "s", "r", "c", "/">>,
                     owners |->
                         << <<"@", "c", "o", "r", "e", "-", "o", "w", "n", "e", "r">> >>],
                    [path |-> <<"*", ".", "m", "d">>,
                     owners |->
                         << <<"@", "d", "o", "c", "-", "o", "w", "n", "e", "r">> >>]>>

\* The text of the scenario is parsed into two entries, /src/ first.
C16_Witness ==
    /\ pc = "parsed"
    /\ content = TextExample
    /\ Len(codeOwnerEntries) = 2
    /\ codeOwnerEntries[1].path = <<"/", "s", "r", "c", "/">>
    /\ codeTeamEntries[2].label = <<"*", ".", "m", "d">>

\* One entry a first word, each made from the first kept line with that
\* word, and the entries ordered by that line, last line first.
FirstLinesReversed(entries) ==
    /\ \A i, j \in 1..Len(entries) : i # j => entries[i].path # entries[j].path
    /\ {entries[i].path : i \in 1..Len(entries)}
           = {Head(LineWords(KeptLines[k])) : k \in 1..Len(KeptLines)}
    /\ \A i \in 1..Len(entries) :
          entries[i].owners = Tail(LineWords(KeptLines[FirstLineWith(entries[i].path)]))
    /\ \A i, j \in 1..Len(entries) :
          i < j => FirstLineWith(entries[i].path) > FirstLineWith(entries[j].path)

\* C18: of the lines with one first token only the first in file order
\* makes an entry, and no later one replaces it; no two entries returned
\* have the same pattern or label; the entries kept are in reversed file
\* order.
C18_FirstLineOfATokenWins ==
    pc = "parsed" =>
        FirstLinesReversed(codeOwnerEntries) /\ FirstLinesReversed(TeamsAsOwners)

\* Two lines for p, the first with an owner and the second without.
C18_Witness ==
    /\ pc = "parsed"
    /\ content = <<"p", " ", "q", "\n", "p">>
    /\ codeOwnerEntries = <<[path |-> <<"p">>, owners |-> << <<"q">> >>]>>

\* A line of blanks only.
Blank(line) == \A i \in 1..Len(line) : IsSpace(line[i])

\* The first words of the lines that are not blank and do not start with
\* '#'.
FirstWordsOfLines ==
    LET lines == splitLines(content)
    IN  {Head(LineWords(lines[k])) :
            k \in {n \in 1..Len(lines) : ~Blank(lines[n]) /\ ~startsWith(lines[n], "#")}}

\* C19 as stated: no entry is made from a line that is empty after trimming
\* or starts with '#': every entry has a non-empty pattern or label and
\* there are as many entries as distinct first tokens of the other lines.
C19_NoEntryForBlankLines ==
    pc = "parsed" =>
        /\ \A i \in 1..Len(codeOwnerEntries) : codeOwnerEntries[i].path # <<>>
        /\ \A i \in 1..Len(codeTeamEntries) : codeTeamEntries[i].label # <<>>
        /\ Len(codeOwnerEntries) = Cardinality(FirstWordsOfLines)
        /\ Len(codeTeamEntries) = Cardinality(FirstWordsOfLines)

\* A word of an entry holds no '#' and no blank.
CleanWord(w) == \A i \in 1..Len(w) : w[i] # "#" /\ ~IsSpace(w[i])

\* Every entry is made of the words before the first '#' of a kept line,
\* and every kept line has the entry of its first word.
MadeOfWordsBeforeHash(entries) ==
    /\ \A i \in 1..Len(entries) :
          /\ CleanWord(entries[i].path)
          /\ \A n \in 1..Len(entries[i].owners) : CleanWord(entries[i].owners[n])
          /\ \E k \in 1..Len(KeptLines) : entries[i] = EntryOf(KeptLines[k])
    /\ \A k \in 1..Len(KeptLines) :
          \E i \in 1..Len(entries) :
              /\ entries[i].path = Head(LineWords(KeptLines[k]))
              /\ k = FirstLineWith(entries[i].path) => entries[i] = EntryOf(KeptLines[k])

\* C20: for each kept line everything from the first '#' on is removed
\* before the line is split on runs of whitespace; the first token is the
\* pattern or label and the others are the owners or users in their order,
\* so nothing at or after a '#' is in an entry, and a line 'pattern #
\* comment' gives an entry without owners.
C20_CommentStrippedBeforeSplit ==
    pc = "parsed" =>
        /\ MadeOfWordsBeforeHash(codeOwnerEntries)
        /\ MadeOfWordsBeforeHash(TeamsAsOwners)
        /\ \A k \in 1..Len(KeptLines) :
              (/\ FirstHash(KeptLines[k]) <= Len(KeptLines[k])
               /\ Cardinality(RunStarts(BeforeHash(KeptLines[k]))) = 1
               /\ k = FirstLineWith(Head(LineWords(KeptLines[k])))) =>
                  \E i \in 1..Len(codeOwnerEntries) :
                      /\ codeOwnerEntries[i].path = Head(LineWords(KeptLines[k]))
                      /\ codeOwnerEntries[i].owners = <<>>

\* The line 'p #q' gives the entry of p without owners.
C20_Witness ==
    /\ pc = "parsed"
    /\ content = <<"p", " ", "#", "q">>
    /\ codeOwnerEntries = <<[path |-> <<"p">>, owners |-> <<>>]>>
    /\ codeTeamEntries = <<[label |-> <<"p">>, users |-> <<>>]>>

(***************************************************************************)
(* The order of the collected owners, checked under SpecOwner              *)
(***************************************************************************)

\* The token at <<file, entry, position>>, and the order in which
\* getPullCodeOwners comes to the tokens: files in order, for each file the
\* entries in order, for each entry its owners in order.
TokenAt(t) == codeOwnerEntries[t[2]].owners[t[3]]
MetBefore(t, u) ==
    \/ t[1] < u[1]
    \/ t[1] = u[1] /\ t[2] < u[2]
    \/ t[1] = u[1] /\ t[2] = u[2] /\ t[3] < u[3]

\* Where a valid owner is met first.
FirstMet(o) ==
    CHOOSE t \in TokensMet(ValidOwner) :
        /\ TokenAt(t) = o
        /\ \A u \in TokensMet(ValidOwner) : TokenAt(u) = o => (u = t \/ MetBefore(t, u))

NoContent == [kind |-> "noContent", text |-> <<>>]

\* What one candidate path can resolve to: nothing, a response without
\* content, a failing request, an empty file, or one of two files.
Responses ==
    {NotFound, NoContent, Failure, Content(<<>>), Content(OwnersSole), Content(OwnersPair)}

LookupRepos == [1..Len(OwnersCandidates) -> Responses]

LookupInit ==
    /\ cfg = NoCfg
    /\ actor = alice
    /\ pc = "getCodeOwners"
    /\ pr = NoPull
    /\ codeOwnerEntries = <<>>
    /\ files = <<>>
    /\ isOwner = NoVerdict
    /\ owners = NoOwners
    /\ reviews = Null
    /\ hasReview = NoReview
    /\ codeTeamEntries = <<>>
    /\ labels = Null
    /\ entryIdx = 0
    /\ pullUser = <<>>
    /\ error = NoError
    /\ calls = <<>>
    /\ content = <<>>
    /\ baseRef \in LookupRepos
    /\ log = <<>>

SpecLookup == LookupInit /\ [][ParseNext]_vars

\* The first candidate that resolves to content, and the first whose
\* request fails (0 when there is none).
Resolves(i) == baseRef[i].kind = "content" /\ baseRef[i].text # <<>>
FirstResolving ==
    IF \E i \in 1..Len(baseRef) : Resolves(i)
    THEN CHOOSE i \in 1..Len(baseRef) : Resolves(i) /\ \A k \in 1..(i - 1) : ~Resolves(k)
    ELSE 0
Fails(i) == baseRef[i].kind = "error"
FirstFailing ==
    IF \E i \in 1..Len(baseRef) : Fails(i)
    THEN CHOOSE i \in 1..Len(baseRef) : Fails(i) /\ \A k \in 1..(i - 1) : ~Fails(k)
    ELSE 0

\* A candidate resolves to content and no request before it fails.
FileReached == FirstResolving > 0 /\ (FirstFailing = 0 \/ FirstResolving < FirstFailing)

\* The requests of the CODEOWNERS lookup and of the CODETEAMS lookup.
IsOwnersProbe(call) == \E k \in 1..Len(OwnersCandidates) : call = OwnersCandidates[k]
IsTeamsProbe(call) == \E k \in 1..Len(TeamsCandidates) : call = TeamsCandidates[k]
OwnersProbes == SelectSeq(calls, IsOwnersProbe)
TeamsProbes == SelectSeq(calls, IsTeamsProbe)

\* C21: the candidates are requested in the order root, .github/, .gitlab/,
\* docs/, one after the other; the entries are parsed from the first
\* candidate that resolves to (non-empty) content and from no other file,
\* and no candidate after it is requested.
C21_FirstCandidateWithContentWins ==
    /\ OwnersCandidates =
           <<"CODEOWNERS", ".github/CODEOWNERS", ".gitlab/CODEOWNERS", "docs/CODEOWNERS">>
    /\ TeamsCandidates =
           <<"CODETEAMS", ".github/CODETEAMS", ".gitlab/CODETEAMS", "docs/CODETEAMS">>
    /\ OwnersProbes = SubSeq(OwnersCandidates, 1, Len(OwnersProbes))
    /\ TeamsProbes = SubSeq(TeamsCandidates, 1, Len(TeamsProbes))
    /\ (pc # "getCodeOwners" /\ FileReached) =>
          /\ Len(OwnersProbes) = FirstResolving
          /\ codeOwnerEntries = parseCodeOwners(baseRef[FirstResolving].text)
    /\ (pc = "parsed" /\ FileReached) =>
          /\ Len(TeamsProbes) = FirstResolving
          /\ codeTeamEntries = parseCodeTeams(baseRef[FirstResolving].text)
    /\ (pc = "parsed" /\ FirstResolving = 0) =>
          /\ Len(OwnersProbes) = Len(OwnersCandidates)
          /\ Len(TeamsProbes) = Len(TeamsCandidates)
          /\ codeOwnerEntries = <<>> /\ codeTeamEntries = <<>>

\* Two files, under .github/ and under .gitlab/: the first one is parsed
\* and the second one is not requested.
C21_Witness ==
    /\ pc = "parsed"
    /\ baseRef = <<NotFound, Content(OwnersSole), Content(OwnersPair), NotFound>>
    /\ calls = <<"CODEOWNERS", ".github/CODEOWNERS", "CODETEAMS", ".github/CODETEAMS">>
    /\ codeOwnerEntries = <<[path |-> PatAll, owners |-> <<At(alice)>>]>>

(***************************************************************************)
(* Errors of the lookup in a run, checked under Spec                       *)
(***************************************************************************)

\* The requests of the last lookup of the run, whose responses baseRef
\* holds.
LastLookupProbes == IF TeamsProbes # <<>> THEN TeamsProbes ELSE OwnersProbes

\* A request of the last lookup fails before a candidate resolves.
LookupFails == FirstFailing > 0 /\ (FirstResolving = 0 \/ FirstFailing < FirstResolving)

\* C22: in a lookup a candidate that is not found is passed over and the
\* next one is requested, without an error; a request that fails otherwise
\* ends the run with that error, also when a later candidate holds a file:
\* no later candidate is requested, no entry is taken from the lookup, the
\* check of the file is not passed, and the run takes no further step.
C22_LookupErrorEndsRun ==
    baseRef # <<>> =>
        /\ LookupFails =>
              /\ pc = "failed"
              /\ error.msg = "getContent failed"
              /\ Len(LastLookupProbes) = FirstFailing
              /\ content = <<>>
              /\ IF TeamsProbes = <<>>
                 THEN codeOwnerEntries = <<>> /\ ~PassedCheck(1)
                 ELSE codeTeamEntries = <<>> /\ ~PassedCheck(5)
              /\ ~ENABLED Next
        /\ ~LookupFails =>
              /\ error.msg # "getContent failed"
              /\ Len(LastLookupProbes) =
                     IF FirstResolving > 0 THEN FirstResolving ELSE Len(baseRef)
              /\ \A i \in 1..(Len(LastLookupProbes) - 1) : ~Resolves(i)

\* The request for .github/CODEOWNERS fails and the run ends, with a file
\* under .gitlab/ that is never requested.
C22_Witness ==
    /\ pc = "failed"
    /\ error.msg = "getContent failed"
    /\ baseRef = FailsBeforeFile(OwnersSole)
    /\ calls = <<"pulls.get", "CODEOWNERS", ".github/CODEOWNERS">>
    /\ codeOwnerEntries = <<>>

(***************************************************************************)
(* The review lists of a run, checked under Spec                           *)
(***************************************************************************)

\* The step requests the reviews of the pull request.
RequestsReviews ==
    /\ Len(calls') = Len(calls) + 1
    /\ calls'[Len(calls')] = "pulls.listReviews"

\* C23 as stated: every approval decision of a run is taken against the
\* same review list: a request for the reviews that follows an earlier one
\* in the run gets the list the earlier one got.
C23_OneReviewListPerRun ==
    [][(Requested("pulls.listReviews") /\ RequestsReviews) => reviews' = reviews]_vars

(***************************************************************************)
(* Negated patterns, checked under SpecOwner                               *)
(***************************************************************************)

\* Entry j, declared on a later line than entry k (so before it in the
\* reversed order), is the negation '!P' of the pattern P of entry k.
NegatedLater(j, k) ==
    /\ j < k
    /\ codeOwnerEntries[j].path = <<"!">> \o codeOwnerEntries[k].path

\* C24 as stated, for Q = P: when a pattern P is declared and a later line
\* declares '!P', a changed file covered by P is attributed to the owners
\* of P neither by getPullCodeOwners nor by isActorOwner. With these two
\* entries and that one file nobody is collected and no actor is accepted.
C24_NegationRevokesMatch ==
    (/\ pc = "ownerReturned"
     /\ Len(codeOwnerEntries) = 2 /\ NegatedLater(1, 2)
     /\ Len(files) = 1 /\ match(codeOwnerEntries[2].path, relativePath(files[1]))) =>
        /\ owners.owners = <<>>
        /\ ~isOwner.result

(***************************************************************************)
(* isReviewed as a function of the approvals, checked under SpecReviewed   *)
(***************************************************************************)

\* The reviewers of the APPROVED reviews of a list.
Approvers(reviewList) ==
    {<<reviewList[n].hasUser, reviewList[n].login>> :
        n \in {k \in 1..Len(reviewList) : reviewList[k].state = "APPROVED"}}

\* The result of isReviewed for another review list and the arguments of
\* the call.
ResultFor(reviewList) == isReviewed(Data(reviewList), owners.owners, pullUser).result

\* C25: the result of isReviewed depends only on the set of reviewers with
\* an APPROVED review: every list with the same set gives the same result,
\* whatever its order, its repetitions and its reviews in another state;
\* and putting one more review at either end of the list never turns a
\* true result into false.
C25_DependsOnApprovalsOnly ==
    (pc = "reviewedReturned" /\ ~reviews.isNull) =>
        /\ \A other \in SeqsUpTo(Reviews, MaxReviews) :
              Approvers(other) = Approvers(reviews.data) =>
                  ResultFor(other) = hasReview.result
        /\ \A review \in Reviews :
              hasReview.result =>
                  /\ ResultFor(Append(reviews.data, review))
                  /\ ResultFor(<<review>> \o reviews.data)

\* bob approves and then requests changes: the approval still counts.
C25_Witness ==
    /\ pc = "reviewedReturned"
    /\ owners.owners = <<At(alice), At(bob)>> /\ pullUser = alice
    /\ reviews = Data(<<UserReview(bob, "APPROVED"), UserReview(bob, "CHANGES_REQUESTED")>>)
    /\ hasReview.result

(***************************************************************************)
(* Review checks without a required reviewer, checked under Spec           *)
(***************************************************************************)

\* The last response of pulls.listReviews holds an APPROVED review.
SomeApproval ==
    /\ ~reviews.isNull
    /\ \E n \in 1..Len(reviews.data) : reviews.data[n].state = "APPROVED"

\* The code-owner review check has just been decided.
OwnerReviewDecided ==
    LastLog \in {"Check require_code_owner_review", "Passed require_code_owner_review"}

PastReviewChecks ==
    \/ pc \in {"getCodeTeams", "getLabels", "teamEntry", "mergeableState",
               "allChecks", "completed"}
    \/ pc = "failed" /\ FailedCheck(error.msg) >= 3

\* C27: the two review checks never both run; past their place in the run,
\* the code-owner review check has run iff require_code_owner_review is
\* enabled and there are entries, and the plain check iff that is not so
\* and require_approved_review is enabled; with only the code-owner review
\* required and no entry, no review check runs and no review is requested
\* for one; a review check that passed found an APPROVED review, and a
\* completed run in which one ran ends with an APPROVED review in the last
\* list it read.
C27_ReviewChecksExclusive ==
    /\ ~(Started(3) /\ Started(4))
    /\ PastReviewChecks =>
          /\ Started(3) <=> Applies(3)
          /\ Started(4) <=> Applies(4)
    /\ (PastReviewChecks /\ cfg.requireCodeOwnerReview /\ ~cfg.requireApprovedReview
          /\ Len(codeOwnerEntries) = 0) =>
          /\ ~Started(3) /\ ~Started(4)
          /\ ~cfg.requireCodeTeamReview => ~Requested("pulls.listReviews")
    /\ LastLog \in {PassedLines[3], PassedLines[4]} => SomeApproval
    /\ (pc = "completed" /\ (Started(3) \/ Started(4))) => SomeApproval

\* A run that requires the code-owner review only, finds no entry, and
\* completes without a review check and without reading any review.
C27_Witness ==
    /\ pc = "completed"
    /\ cfg.requireCodeOwnerReview
    /\ ~cfg.requireApprovedReview
    /\ Len(codeOwnerEntries) = 0
    /\ ~Started(3) /\ ~Started(4)
    /\ ~Requested("pulls.listReviews")
    /\ reviews = Null
    /\ hasReview = NoReview

====
